---- MODULE Spec2Model ----
(***************************************************************************)
(* CSV import engine of cf-alchemy-pglite-react:                           *)
(*   src/lib/database-utils.ts  (sanitizeSqlIdentifier, createTableFromCSV,*)
(*   determineColumnType, inferDataType) running against one PGlite        *)
(*   session (the `db` handle of routes/pglite.tsx).                       *)
(*                                                                         *)
(* A JavaScript string is a sequence of one-character strings.             *)
(***************************************************************************)
EXTENDS Integers, Sequences, FiniteSets, TLC

(***************************************************************************)
(* Bounds of the model.                                                    *)
(***************************************************************************)
\* number of import calls made on the handle
MaxCalls == 2
\* rows of the large input beyond one full batch
ExtraRows == 2
\* length of the longest identifier given to sanitizeSqlIdentifier on its own
MaxLen == 3
\* rows of the longest short column given to determineColumnType on its own
MaxShort == 2
\* the long columns given to it have about 10, 20, ..., 10 * MaxTens rows
MaxTens == 2
\* how far below and above each limit of the upload component the parsed
\* files go
Margin == 1
\* files handed to the upload component in one drop
MaxFiles == 3

(***************************************************************************)
(* Characters and strings.                                                 *)
(***************************************************************************)
UpperLetters == <<"A","B","C","D","E","F","G","H","I","J","K","L","M",
                  "N","O","P","Q","R","S","T","U","V","W","X","Y","Z">>
LowerLetters == <<"a","b","c","d","e","f","g","h","i","j","k","l","m",
                  "n","o","p","q","r","s","t","u","v","w","x","y","z">>
Digits == <<"0","1","2","3","4","5","6","7","8","9">>

Range(f) == {f[x] : x \in DOMAIN f}

IsUpper(ch) == ch \in Range(UpperLetters)
IsLower(ch) == ch \in Range(LowerLetters)
IsDigit(ch) == ch \in Range(Digits)
\* the characters String.prototype.trim removes (those of the alphabet used)
IsWhiteSpace(ch) == ch \in {" ", "\t", "\n", "\r"}

\* String.prototype.toLowerCase on one character
LowerChar(ch) ==
    IF IsUpper(ch)
    THEN LowerLetters[CHOOSE k \in DOMAIN UpperLetters : UpperLetters[k] = ch]
    ELSE ch

toLowerCase(s) == [k \in 1..Len(s) |-> LowerChar(s[k])]

\* String.prototype.trim
trim(s) ==
    LET keep == {k \in 1..Len(s) : ~IsWhiteSpace(s[k])}
    IN  IF keep = {} THEN <<>>
        ELSE LET lo == CHOOSE k \in keep : \A m \in keep : k <= m
                 hi == CHOOSE k \in keep : \A m \in keep : k >= m
             IN  SubSeq(s, lo, hi)

includes(s, ch) == \E k \in 1..Len(s) : s[k] = ch

(***************************************************************************)
(* sanitizeSqlIdentifier                                                   *)
(***************************************************************************)
ReplaceChar_KeepingDash(ch) ==
    IF IsUpper(ch) \/ IsLower(ch) \/ IsDigit(ch) \/ ch = "_" \/ ch = "-" THEN ch ELSE "_"

\* identifier.replace(/[^a-zA-Z0-9_]/g, "_") on one character
ReplaceChar(ch) ==
    IF IsUpper(ch) \/ IsLower(ch) \/ IsDigit(ch) \/ ch = "_" THEN ch ELSE "_"

StartsWithLetterOrUnderscore_LetterOnly(s) ==
    Len(s) > 0 /\ IsLower(s[1])

\* /^[a-z_]/.test(s)
StartsWithLetterOrUnderscore(s) ==
    Len(s) > 0 /\ (IsLower(s[1]) \/ s[1] = "_")

sanitizeSqlIdentifier(identifier) ==
    LET sanitized == toLowerCase([k \in 1..Len(identifier) |-> ReplaceChar(identifier[k])])
    IN  IF ~StartsWithLetterOrUnderscore(sanitized)
        THEN <<"_">> \o sanitized
        ELSE sanitized

(***************************************************************************)
(* Number(value): the StringToNumber conversion of ECMAScript, for decimal *)
(* literals (sign, digits, fraction, exponent), Infinity and the empty     *)
(* string.  A finite number is m * 10^e with m free of trailing zeros; NaN *)
(* and the infinities are their own kinds.                                 *)
(***************************************************************************)
DigitVal(ch) == (CHOOSE k \in DOMAIN Digits : Digits[k] = ch) - 1

RECURSIVE DigitsVal(_)
DigitsVal(ds) ==
    IF Len(ds) = 0 THEN 0
    ELSE 10 * DigitsVal(SubSeq(ds, 1, Len(ds) - 1)) + DigitVal(ds[Len(ds)])

AllDigits(ds) == \A k \in 1..Len(ds) : IsDigit(ds[k])

NaN == [k |-> "nan", m |-> 0, e |-> 0]
Infinity(neg) == [k |-> "inf", m |-> IF neg THEN -1 ELSE 1, e |-> 0]

RECURSIVE Normalise(_, _)
Normalise(m, e) ==
    IF m = 0 THEN [k |-> "fin", m |-> 0, e |-> 0]
    ELSE IF m % 10 = 0 THEN Normalise(m \div 10, e + 1)
    ELSE [k |-> "fin", m |-> m, e |-> e]

IsSign(ch) == ch \in {"+", "-"}

\* first position holding one of the characters, 0 when there is none
FirstIndex(s, chars) ==
    IF \E k \in 1..Len(s) : s[k] \in chars
    THEN CHOOSE k \in 1..Len(s) : s[k] \in chars /\ \A m \in 1..(k-1) : s[m] \notin chars
    ELSE 0

\* an unsigned StrDecimalLiteral: digits [. digits] [e [sign] digits]
ParseUnsignedDecimal(s) ==
    LET ePos   == FirstIndex(s, {"e", "E"})
        mant   == IF ePos = 0 THEN s ELSE SubSeq(s, 1, ePos - 1)
        expo   == IF ePos = 0 THEN <<>> ELSE SubSeq(s, ePos + 1, Len(s))
        expNeg == Len(expo) > 0 /\ expo[1] = "-"
        expDs  == IF Len(expo) > 0 /\ IsSign(expo[1]) THEN Tail(expo) ELSE expo
        dot    == FirstIndex(mant, {"."})
        intDs  == IF dot = 0 THEN mant ELSE SubSeq(mant, 1, dot - 1)
        fracDs == IF dot = 0 THEN <<>> ELSE SubSeq(mant, dot + 1, Len(mant))
        expOk  == ePos = 0 \/ (Len(expDs) > 0 /\ AllDigits(expDs))
        mantOk == AllDigits(intDs) /\ AllDigits(fracDs) /\ Len(intDs) + Len(fracDs) > 0
        expVal == IF expNeg THEN 0 - DigitsVal(expDs) ELSE DigitsVal(expDs)
    IN  IF expOk /\ mantOk
        THEN Normalise(DigitsVal(intDs \o fracDs), expVal - Len(fracDs))
        ELSE NaN

InfinityLiteral == <<"I","n","f","i","n","i","t","y">>

Number(value) ==
    LET t    == trim(value)
        neg  == Len(t) > 0 /\ t[1] = "-"
        body == IF Len(t) > 0 /\ IsSign(t[1]) THEN Tail(t) ELSE t
        mag  == ParseUnsignedDecimal(body)
    IN  IF Len(t) = 0 THEN Normalise(0, 0)
        ELSE IF body = InfinityLiteral THEN Infinity(neg)
        ELSE IF mag.k = "fin" /\ neg THEN [mag EXCEPT !.m = 0 - mag.m]
        ELSE mag

isNaN(num) == num.k = "nan"

(***************************************************************************)
(* inferDataType and determineColumnType                                   *)
(***************************************************************************)
booleanValues ==
    { <<"t","r","u","e">>, <<"f","a","l","s","e">>, <<"y","e","s">>, <<"n","o">>,
      <<"1">>, <<"0">>, <<"t">>, <<"f">>, <<"y">>, <<"n">> }

\* /^\d{4}-\d{2}-\d{2}$/.test(value)
datePattern(value) ==
    /\ Len(value) = 10
    /\ \A k \in {1, 2, 3, 4, 6, 7, 9, 10} : IsDigit(value[k])
    /\ value[5] = "-" /\ value[8] = "-"

inferDataType(value) ==
    IF value = <<>> THEN "TEXT"
    ELSE IF toLowerCase(trim(value)) \in booleanValues THEN "BOOLEAN"
    ELSE IF ~isNaN(Number(value)) /\ trim(value) # <<>>
         THEN IF includes(value, ".") THEN "REAL" ELSE "INTEGER"
    ELSE IF datePattern(value) THEN "DATE"
    ELSE "TEXT"

SAMPLE_LIMIT == 100

\* columnValues.filter(v => v !== "" && v !== null && v !== undefined)
IsNonEmpty(v) == v # <<>>

\* variant: empty values stay in and count towards the sample
FilterNonEmpty_KeepingAll(vals) == vals

FilterNonEmpty(vals) == SelectSeq(vals, IsNonEmpty)

Min(a, b) == IF a <= b THEN a ELSE b

PostgresColumnType == {"TEXT", "INTEGER", "REAL", "DATE", "BOOLEAN"}

\* typeCounts[ty] after iteration n of the scan, types[k] being the class of
\* the k-th sampled value
CountType(types, n, ty) == Cardinality({k \in 1..n : types[k] = ty})

\* inferDataType applied to every value of the sample
ClassifyAll(sample) ==
    SubSeq([k \in 1..Len(sample) |-> inferDataType(sample[k])], 1, Len(sample))

ExceedsTenth_Inclusive(count, sampleSize) == 10 * count >= sampleSize

\* count > sampleSize * 0.1 is decided as 10 * count > sampleSize: the double
\* 0.1 is no less than 1/10, so the rounded product is no less than the exact one
ExceedsTenth(count, sampleSize) == 10 * count > sampleSize

determineColumnType_AnyBoolean(columnValues) ==
    LET nonEmptyValues == FilterNonEmpty(columnValues)
        sampleSize     == Min(SAMPLE_LIMIT, Len(nonEmptyValues))
        sample         == SubSeq(nonEmptyValues, 1, sampleSize)
        types          == ClassifyAll(sample)
        \* the return inside the loop is taken in some iteration n
        earlyExit      == \E n \in 1..sampleSize :
                              ExceedsTenth(CountType(types, n, "TEXT"), sampleSize)
        typeCounts(ty) == CountType(types, sampleSize, ty)
    IN  IF Len(nonEmptyValues) = 0 THEN "TEXT"
        ELSE IF earlyExit THEN "TEXT"
        ELSE IF typeCounts("BOOLEAN") > 0 THEN "BOOLEAN"
        ELSE IF typeCounts("REAL") > 0 THEN "REAL"
        ELSE IF typeCounts("INTEGER") > 0 THEN "INTEGER"
        ELSE IF typeCounts("DATE") > 0 THEN "DATE"
        ELSE "TEXT"

determineColumnType_IntegerFirst(columnValues) ==
    LET nonEmptyValues == FilterNonEmpty(columnValues)
        sampleSize     == Min(SAMPLE_LIMIT, Len(nonEmptyValues))
        sample         == SubSeq(nonEmptyValues, 1, sampleSize)
        types          == ClassifyAll(sample)
        \* the return inside the loop is taken in some iteration n
        earlyExit      == \E n \in 1..sampleSize :
                              ExceedsTenth(CountType(types, n, "TEXT"), sampleSize)
        typeCounts(ty) == CountType(types, sampleSize, ty)
    IN  IF Len(nonEmptyValues) = 0 THEN "TEXT"
        ELSE IF earlyExit THEN "TEXT"
        ELSE IF typeCounts("BOOLEAN") = sampleSize THEN "BOOLEAN"
        ELSE IF typeCounts("INTEGER") > 0 THEN "INTEGER"
        ELSE IF typeCounts("REAL") > 0 THEN "REAL"
        ELSE IF typeCounts("DATE") > 0 THEN "DATE"
        ELSE "TEXT"

determineColumnType_NoDefault(columnValues) ==
    LET nonEmptyValues == FilterNonEmpty(columnValues)
        sampleSize     == Min(SAMPLE_LIMIT, Len(nonEmptyValues))
        sample         == SubSeq(nonEmptyValues, 1, sampleSize)
        types          == ClassifyAll(sample)
        \* the return inside the loop is taken in some iteration n
        earlyExit      == \E n \in 1..sampleSize :
                              ExceedsTenth(CountType(types, n, "TEXT"), sampleSize)
        typeCounts(ty) == CountType(types, sampleSize, ty)
    IN  IF Len(nonEmptyValues) = 0 THEN "TEXT"
        ELSE IF earlyExit THEN "TEXT"
        ELSE IF typeCounts("BOOLEAN") = sampleSize THEN "BOOLEAN"
        ELSE IF typeCounts("REAL") > 0 THEN "REAL"
        ELSE IF typeCounts("INTEGER") > 0 THEN "INTEGER"
        ELSE IF typeCounts("DATE") > 0 THEN "DATE"
        ELSE "undefined"

determineColumnType(columnValues) ==
    LET nonEmptyValues == FilterNonEmpty(columnValues)
        sampleSize     == Min(SAMPLE_LIMIT, Len(nonEmptyValues))
        sample         == SubSeq(nonEmptyValues, 1, sampleSize)
        types          == ClassifyAll(sample)
        \* the return inside the loop is taken in some iteration n
        earlyExit      == \E n \in 1..sampleSize :
                              ExceedsTenth(CountType(types, n, "TEXT"), sampleSize)
        typeCounts(ty) == CountType(types, sampleSize, ty)
    IN  IF Len(nonEmptyValues) = 0 THEN "TEXT"
        ELSE IF earlyExit THEN "TEXT"
        ELSE IF typeCounts("BOOLEAN") = sampleSize THEN "BOOLEAN"
        ELSE IF typeCounts("REAL") > 0 THEN "REAL"
        ELSE IF typeCounts("INTEGER") > 0 THEN "INTEGER"
        ELSE IF typeCounts("DATE") > 0 THEN "DATE"
        ELSE "TEXT"

(***************************************************************************)
(* createTableFromCSV: the synchronous prologue                            *)
(***************************************************************************)
\* rows.map(row => row[i]?.toString() ?? "")
columnValues(rows, col) ==
    [r \in 1..Len(rows) |-> IF col <= Len(rows[r]) THEN rows[r][col] ELSE <<>>]

inferColumnTypes(columns, rows) ==
    [col \in 1..Len(columns) |-> determineColumnType(columnValues(rows, col))]

\* variant: a sanitized name already taken by an earlier column gets an
\* underscore appended
sanitizeColumns_Renaming(columns) ==
    [col \in 1..Len(columns) |->
        IF \E before \in 1..(col - 1) :
              sanitizeSqlIdentifier(columns[before]) = sanitizeSqlIdentifier(columns[col])
        THEN sanitizeSqlIdentifier(columns[col]) \o <<"_">>
        ELSE sanitizeSqlIdentifier(columns[col])]

sanitizeColumns(columns) ==
    [col \in 1..Len(columns) |-> sanitizeSqlIdentifier(columns[col])]

\* `"${col}" ${columnTypes[i]}` for every column
columnDefinitions(sanCols, types) ==
    [col \in 1..Len(sanCols) |-> [name |-> sanCols[col], type |-> types[col]]]

(***************************************************************************)
(* Values bound to an INSERT: null, number, boolean or string.             *)
(***************************************************************************)
NullValue      == [k |-> "null", num |-> NaN, b |-> FALSE, s |-> <<>>]
NumberValue(n) == [k |-> "num",  num |-> n,   b |-> FALSE, s |-> <<>>]
BoolValue(bb)  == [k |-> "bool", num |-> NaN, b |-> bb,    s |-> <<>>]
StringValue(t) == [k |-> "str",  num |-> NaN, b |-> FALSE, s |-> t]

affirmativeValues ==
    { <<"t","r","u","e">>, <<"y","e","s">>, <<"1">>, <<"t">>, <<"y">> }

convertCell_NullForOthers(val, ty) ==
    IF val = <<>> THEN NullValue
    ELSE IF ty \in {"INTEGER", "REAL"}
         THEN IF isNaN(Number(val)) THEN NullValue ELSE NumberValue(Number(val))
    ELSE IF ty = "BOOLEAN"
         THEN IF toLowerCase(trim(val)) \in booleanValues
              THEN BoolValue(toLowerCase(trim(val)) \in affirmativeValues)
              ELSE NullValue
    ELSE StringValue(val)

\* the callback of row.map: val is the cell, ty is columnTypes[i] (or
\* "undefined" when the row is longer than the column list)
convertCell(val, ty) ==
    IF val = <<>> THEN NullValue
    ELSE IF ty \in {"INTEGER", "REAL"}
         THEN IF isNaN(Number(val)) THEN NullValue ELSE NumberValue(Number(val))
    ELSE IF ty = "BOOLEAN"
         THEN BoolValue(toLowerCase(trim(val)) \in affirmativeValues)
    ELSE StringValue(val)

convertRow(row, types) ==
    [col \in 1..Len(row) |->
        convertCell(row[col], IF col <= Len(types) THEN types[col] ELSE "undefined")]

BATCH_SIZE == 500

\* rows.slice(i, i + BATCH_SIZE), i counted from 0
batchOf_Overlapping(rows, i) == SubSeq(rows, i + 1, Min(i + BATCH_SIZE + 1, Len(rows)))

batchOf(rows, i) == SubSeq(rows, i + 1, Min(i + BATCH_SIZE, Len(rows)))

(***************************************************************************)
(* The PGlite session behind the handle: the tables the session sees (db), *)
(* the tables as they were when the open transaction began (snap) and the  *)
(* transaction status.  A table is its column definitions and its rows;    *)
(* every row remembers the call that inserted it.                          *)
(***************************************************************************)
NoTables == <<>>

RemoveTable(tables, name) ==
    [n \in (DOMAIN tables) \ {name} |-> tables[n]]

PutTable(tables, name, tbl) ==
    [n \in (DOMAIN tables) \cup {name} |-> IF n = name THEN tbl ELSE tables[n]]

NoDuplicates(names) ==
    \A a, b \in 1..Len(names) : names[a] = names[b] => a = b

\* an error inside a transaction block aborts the block
DbError(S) ==
    [S EXCEPT !.txn = IF S.txn = "open" THEN "aborted" ELSE S.txn]

\* in an aborted block every statement but COMMIT/ROLLBACK is rejected
Accepting(S) == S.txn # "aborted"

\* variant: the statement drops every table of the database
DropDo_Every(S, name) == [S EXCEPT !.db = NoTables]

\* DROP TABLE IF EXISTS "<name>" CASCADE
DropDo(S, name) == [S EXCEPT !.db = RemoveTable(S.db, name)]

\* CREATE TABLE IF NOT EXISTS "<name>" (<defs>): a notice when the table
\* exists, an error when a column name is given twice
CreateCan(S, name, defs) ==
    Accepting(S) /\ (name \in DOMAIN S.db \/ NoDuplicates([d \in 1..Len(defs) |-> defs[d].name]))

CreateDo(S, name, defs) ==
    IF name \in DOMAIN S.db THEN S
    ELSE [S EXCEPT !.db = PutTable(S.db, name, [cols |-> defs, rows |-> <<>>])]

\* BEGIN: opens a block; a warning and no effect inside a block
BeginDo(S) ==
    IF S.txn = "none" THEN [db |-> S.db, snap |-> S.db, txn |-> "open"] ELSE S

\* COMMIT: ends the block; an aborted block is rolled back instead
CommitDo(S) ==
    IF S.txn = "aborted" THEN [db |-> S.snap, snap |-> NoTables, txn |-> "none"]
    ELSE [db |-> S.db, snap |-> NoTables, txn |-> "none"]

\* a COMMIT that raises ends the block without making it durable
CommitError(S) ==
    IF S.txn = "none" THEN S
    ELSE [db |-> S.snap, snap |-> NoTables, txn |-> "none"]

\* ROLLBACK: restores the tables of BEGIN; a warning outside a block
RollbackDo(S) ==
    IF S.txn = "none" THEN S
    ELSE [db |-> S.snap, snap |-> NoTables, txn |-> "none"]

ValidDate(s) ==
    /\ datePattern(s)
    /\ DigitsVal(SubSeq(s, 6, 7)) \in 1..12
    /\ DigitsVal(SubSeq(s, 9, 10)) \in 1..31

\* does a column of the given type take the bound value
ColumnAccepts(type, v) ==
    \/ v.k = "null"
    \/ type = "TEXT"
    \/ type = "INTEGER" /\ v.k = "num" /\ v.num.k = "fin" /\ v.num.e >= 0
    \/ type = "REAL"    /\ v.k = "num"
    \/ type = "BOOLEAN" /\ v.k = "bool"
    \/ type = "DATE"    /\ v.k = "str" /\ ValidDate(v.s)

ColumnIndex(tbl, name) ==
    CHOOSE d \in 1..Len(tbl.cols) : tbl.cols[d].name = name

\* INSERT INTO "<name>" (<cols>) VALUES ($1, ..., $n) with the bound values
InsertCan(S, name, cols, values) ==
    /\ Accepting(S)
    /\ name \in DOMAIN S.db
    /\ NoDuplicates(cols)
    /\ \A c \in 1..Len(cols) : \E d \in 1..Len(S.db[name].cols) : S.db[name].cols[d].name = cols[c]
    /\ Len(values) = Len(cols)
    /\ \A c \in 1..Len(cols) :
          ColumnAccepts(S.db[name].cols[ColumnIndex(S.db[name], cols[c])].type, values[c])

\* the stored row, in the table's column order, NULL where no value is given
StoredRow(tbl, cols, values) ==
    [d \in 1..Len(tbl.cols) |->
        IF \E c \in 1..Len(cols) : cols[c] = tbl.cols[d].name
        THEN values[CHOOSE c \in 1..Len(cols) : cols[c] = tbl.cols[d].name]
        ELSE NullValue]

InsertDo(S, name, cols, values, by) ==
    [S EXCEPT !.db[name].rows =
        Append(@, [vals |-> StoredRow(S.db[name], cols, values), by |-> by])]

(***************************************************************************)
(* Inputs of the calls: (tableName, columns, rows) as handed over by the   *)
(* upload component.                                                       *)
(***************************************************************************)
Args(tableName, columns, rows) ==
    [tableName |-> tableName, columns |-> columns, rows |-> rows]

NoArgs == Args(<<>>, <<>>, <<>>)

\* the strings the inputs are made of
str ==
    [ t1 |-> <<"t","1">>,
      T1 |-> <<"T","1">>,
      t2x |-> <<"2","x">>,
      big |-> <<"b","i","g">>,
      a |-> <<"a">>,
      A |-> <<"A">>,
      ok |-> <<"o","k">>,
      x_y |-> <<"x"," ","y">>,
      d |-> <<"d">>,
      n |-> <<"n">>,
      a_dash_b |-> <<"a","-","b">>,
      a_us_b |-> <<"a","_","b">>,
      empty |-> <<>>,
      n42 |-> <<"4","2">>,
      n9 |-> <<"9">>,
      n7 |-> <<"7">>,
      Yes |-> <<"Y","e","s"," ">>,
      no |-> <<"n","o">>,
      maybe |-> <<"m","a","y","b","e">>,
      r1p5 |-> <<"1",".","5">>,
      true |-> <<"t","r","u","e">>,
      date |-> <<"2","0","2","4","-","0","1","-","3","1">>,
      one |-> <<"1">>,
      zero |-> <<"0">> ]

\* small inputs
SmallInputs ==
    { \* an INTEGER column with an empty cell
      Args(str.t1, <<str.a>>, << <<str.n42>>, <<str.empty>> >>),
      \* another spelling of the same table, same column
      Args(str.T1, <<str.A>>, << <<str.n9>> >>),
      \* two columns, BOOLEAN and REAL, with cells coerced to false and NULL
      Args(str.T1, <<str.ok, str.x_y>>, << <<str.Yes, str.r1p5>>, <<str.no, str.true>> >>),
      \* no rows
      Args(str.t2x, <<str.a>>, << >>),
      \* a DATE column holding a boolean token
      Args(str.t2x, <<str.d>>, << <<str.date>>, <<str.no>> >>),
      \* two column names with one sanitized form
      Args(str.t1, <<str.a_dash_b, str.a_us_b>>, << <<str.maybe, str.n9>> >>) }

\* an input of more rows than one batch.  Column n is INTEGER: one cell is
\* empty and one is not a number.  Column b is BOOLEAN by its sample: a cell
\* beyond the sample is no boolean token.
LargeCellN(r) == IF r = 2 THEN str.empty ELSE IF r = 3 THEN str.maybe ELSE str.n7
LargeCellB(r) == IF r = 4 THEN str.no ELSE IF r = SAMPLE_LIMIT + 50 THEN str.maybe ELSE str.Yes

LargeRows == [r \in 1..(BATCH_SIZE + ExtraRows) |-> <<LargeCellN(r), LargeCellB(r)>>]

LargeInput == Args(str.big, <<str.n, str.ok>>, LargeRows)

(***************************************************************************)
(* State.                                                                  *)
(***************************************************************************)
\* the calls that can be in progress on the handle at one time
Calls == {1, 2}

VARIABLES
    db, snap, txn,          \* the PGlite session
    made,                   \* number of calls made so far
    id,                     \* history: the serial number of each call
    pc,                     \* where each call of createTableFromCSV stands
    args,                   \* tableName, columns, rows of each call
    sanitizedTableName, sanitizedColumns, columnTypes,   \* its locals
    i, j,                   \* batch start (from 0) and position in the batch
    values,                 \* the values bound to the INSERT last issued
    err,                    \* the error caught by the catch block
    result,                 \* what the call returned or threw
    pre,                    \* history: the durable tables when the call began
    issued,                 \* history: the statements the call has issued
    sanitizing,             \* an identifier on its way through sanitizeSqlIdentifier
    inferring,              \* a column on its way through determineColumnType
    upload                  \* a parsed file in the upload component

\* what the functions and the upload component work on, apart from the import
others == <<sanitizing, inferring, upload>>

importVars == <<db, snap, txn, made, id, pc, args, sanitizedTableName, sanitizedColumns,
                columnTypes, i, j, values, err, result, pre, issued>>

vars == <<importVars, others>>

Unused == [stage |-> "unused"]

session == [db |-> db, snap |-> snap, txn |-> txn]

\* the tables that survive the end of the open transaction block, if any
Durable == IF txn = "none" THEN db ELSE snap

NoError == [class |-> "none", from |-> "none"]
\* the error a rejected statement raises
DatabaseError(stmt) == [class |-> "DatabaseError", from |-> stmt]

NoMetadata ==
    [tableName |-> <<>>, sanitizedTableName |-> <<>>, columns |-> <<>>, rowCount |-> 0]

NoResult == [status |-> "none", value |-> NoMetadata, error |-> NoError]
Returned(meta) == [status |-> "returned", value |-> meta, error |-> NoError]
Thrown(e) == [status |-> "thrown", value |-> NoMetadata, error |-> e]

Ended == {"returned", "thrown"}

\* no call has been made on the handle
ImportIdle ==
    /\ db = NoTables /\ snap = NoTables /\ txn = "none"
    /\ made = 0
    /\ id = [c \in Calls |-> 0]
    /\ pc = [c \in Calls |-> "idle"]
    /\ args = [c \in Calls |-> NoArgs]
    /\ sanitizedTableName = [c \in Calls |-> <<>>]
    /\ sanitizedColumns = [c \in Calls |-> <<>>]
    /\ columnTypes = [c \in Calls |-> <<>>]
    /\ i = [c \in Calls |-> 0]
    /\ j = [c \in Calls |-> 0]
    /\ values = [c \in Calls |-> <<>>]
    /\ err = [c \in Calls |-> NoError]
    /\ result = [c \in Calls |-> NoResult]
    /\ pre = [c \in Calls |-> NoTables]
    /\ issued = [c \in Calls |-> <<>>]

Init ==
    /\ ImportIdle
    /\ sanitizing = Unused /\ inferring = Unused /\ upload = Unused

(***************************************************************************)
(* Control flow of createTableFromCSV around its statements.  A step is    *)
(* [pc, throw]: where the call goes on, and the error it throws if it ends *)
(* by throwing.                                                            *)
(***************************************************************************)
Continue(at) == [pc |-> at, throw |-> NoError]
Throw(e) == [pc |-> "thrown", throw |-> e]

\* variant: the DROP is not guarded
OnDropError_Propagated(e) == Throw(e)

\* catch (err) { logger.debug(...) } around the DROP
OnDropError(e) == Continue("create")

\* variant: a failure of CREATE TABLE is swallowed as that of the DROP is
OnCreateError_Swallowed(e) == Continue("begin")

\* await db.exec(createTableSQL) and await db.exec("BEGIN") are not guarded
OnCreateError(e) == Throw(e)
OnBeginError(e) == Throw(e)

\* variant: the catch block rethrows without ROLLBACK
OnTransactionError_NoRollback(e) == Throw(e)

\* catch (err) { await db.exec("ROLLBACK"); ...; throw err; }
OnTransactionError(e) == Continue("rollback")
AfterRollback(caught) == Throw(caught)
\* the ROLLBACK inside the catch block is not guarded itself
OnRollbackError(e) == Throw(e)

\* the loops: for (i = 0; i < rows.length; i += BATCH_SIZE) for (row of batch)
AfterBegin(rows) ==
    IF 0 < Len(rows) THEN Continue("insert") ELSE Continue("commit")

NextPosition(rows, bi, bj) ==
    IF bj + 1 < Len(batchOf(rows, bi)) THEN [i |-> bi, j |-> bj + 1]
    ELSE [i |-> bi + BATCH_SIZE, j |-> 0]

AfterInsert(rows, bi, bj) ==
    IF NextPosition(rows, bi, bj).i < Len(rows) THEN Continue("insert") ELSE Continue("commit")

\* variant: rows with an empty cell are not counted
rowCount_SkippingBlank(rows) ==
    Cardinality({r \in 1..Len(rows) : \A col \in 1..Len(rows[r]) : rows[r][col] # <<>>})

rowCount(rows) == Len(rows)

\* variant: the sanitized name is reported as the original name
columnsMetadata_Sanitized(columns, sanCols, types) ==
    [col \in 1..Len(columns) |->
        [originalName |-> sanCols[col], sanitizedName |-> sanCols[col], type |-> types[col]]]

columnsMetadata(columns, sanCols, types) ==
    [col \in 1..Len(columns) |->
        [originalName |-> columns[col], sanitizedName |-> sanCols[col], type |-> types[col]]]

TableMetadata(c) ==
    [tableName          |-> args[c].tableName,
     sanitizedTableName |-> sanitizedTableName[c],
     columns            |-> columnsMetadata(args[c].columns, sanitizedColumns[c], columnTypes[c]),
     rowCount           |-> rowCount(args[c].rows)]

\* the session, the control state and the statement log after a statement
Step(c, S, k, stmt, ok, row) ==
    /\ db' = S.db /\ snap' = S.snap /\ txn' = S.txn
    /\ pc' = [pc EXCEPT ![c] = k.pc]
    /\ result' = [result EXCEPT ![c] =
                     IF k.pc = "thrown" THEN Thrown(k.throw)
                     ELSE IF k.pc = "returned" THEN Returned(TableMetadata(c))
                     ELSE @]
    /\ issued' = [issued EXCEPT ![c] =
                     Append(@, [stmt |-> stmt, ok |-> ok, txn |-> txn, row |-> row])]
    /\ UNCHANGED others

(***************************************************************************)
(* Actions: one per await of createTableFromCSV.                           *)
(***************************************************************************)
\* calls are made one after the other
NoCallRunning == \A d \in Calls : pc[d] \in {"idle"} \cup Ended

\* the call is entered: everything up to the first await.  The record of a
\* call that has ended is given up for the new call.
Call(c, input) ==
    /\ made < MaxCalls
    /\ pc[c] \in {"idle"} \cup Ended
    /\ \A d \in Calls : d < c => pc[d] \notin {"idle"} \cup Ended
    /\ made' = made + 1
    /\ id' = [id EXCEPT ![c] = made + 1]
    /\ pc' = [pc EXCEPT ![c] = "drop"]
    /\ args' = [args EXCEPT ![c] = input]
    /\ sanitizedTableName' = [sanitizedTableName EXCEPT ![c] = sanitizeSqlIdentifier(input.tableName)]
    /\ sanitizedColumns' = [sanitizedColumns EXCEPT ![c] = sanitizeColumns(input.columns)]
    /\ columnTypes' = [columnTypes EXCEPT ![c] = inferColumnTypes(input.columns, input.rows)]
    /\ i' = [i EXCEPT ![c] = 0]
    /\ j' = [j EXCEPT ![c] = 0]
    /\ values' = [values EXCEPT ![c] = <<>>]
    /\ err' = [err EXCEPT ![c] = NoError]
    /\ result' = [result EXCEPT ![c] = NoResult]
    /\ pre' = [pre EXCEPT ![c] = Durable]
    /\ issued' = [issued EXCEPT ![c] = <<>>]
    /\ UNCHANGED <<db, snap, txn, others>>

\* await db.exec(dropTableSQL), inside try/catch
Drop(c) ==
    /\ pc[c] = "drop"
    /\ \E ok \in BOOLEAN :
          /\ ok => Accepting(session)
          /\ IF ok
             THEN Step(c, DropDo(session, sanitizedTableName[c]), Continue("create"), "DROP", TRUE, 0)
             ELSE Step(c, DbError(session), OnDropError(DatabaseError("DROP")), "DROP", FALSE, 0)
    /\ UNCHANGED <<made, id, args, sanitizedTableName, sanitizedColumns, columnTypes, i, j, values, err, pre>>

\* await db.exec(createTableSQL)
Create(c) ==
    /\ pc[c] = "create"
    /\ LET defs == columnDefinitions(sanitizedColumns[c], columnTypes[c])
       IN  \E ok \in BOOLEAN :
             /\ ok => CreateCan(session, sanitizedTableName[c], defs)
             /\ IF ok
                THEN Step(c, CreateDo(session, sanitizedTableName[c], defs), Continue("begin"), "CREATE", TRUE, 0)
                ELSE Step(c, DbError(session), OnCreateError(DatabaseError("CREATE")), "CREATE", FALSE, 0)
    /\ UNCHANGED <<made, id, args, sanitizedTableName, sanitizedColumns, columnTypes, i, j, values, err, pre>>

\* await db.exec("BEGIN")
Begin(c) ==
    /\ pc[c] = "begin"
    /\ \E ok \in BOOLEAN :
          /\ ok => Accepting(session)
          /\ IF ok
             THEN Step(c, BeginDo(session), AfterBegin(args[c].rows), "BEGIN", TRUE, 0)
             ELSE Step(c, DbError(session), OnBeginError(DatabaseError("BEGIN")), "BEGIN", FALSE, 0)
    /\ UNCHANGED <<made, id, args, sanitizedTableName, sanitizedColumns, columnTypes, i, j, values, err, pre>>

\* await db.query(insertSQL, values) for the row at position j of the batch at i
Insert(c) ==
    /\ pc[c] = "insert"
    /\ LET row    == batchOf(args[c].rows, i[c])[j[c] + 1]
           vals   == convertRow(row, columnTypes[c])
           at     == i[c] + j[c] + 1
           next   == NextPosition(args[c].rows, i[c], j[c])
       IN  \E ok \in BOOLEAN :
             /\ values' = [values EXCEPT ![c] = vals]
             /\ ok => InsertCan(session, sanitizedTableName[c], sanitizedColumns[c], vals)
             /\ IF ok
                THEN /\ Step(c, InsertDo(session, sanitizedTableName[c], sanitizedColumns[c], vals, id[c]),
                             AfterInsert(args[c].rows, i[c], j[c]), "INSERT", TRUE, at)
                     /\ i' = [i EXCEPT ![c] = next.i]
                     /\ j' = [j EXCEPT ![c] = next.j]
                     /\ err' = err
                ELSE /\ Step(c, DbError(session), OnTransactionError(DatabaseError("INSERT")),
                             "INSERT", FALSE, at)
                     /\ err' = [err EXCEPT ![c] = DatabaseError("INSERT")]
                     /\ UNCHANGED <<i, j>>
    /\ UNCHANGED <<made, id, args, sanitizedTableName, sanitizedColumns, columnTypes, pre>>

\* await db.exec("COMMIT"), then return the metadata
Commit(c) ==
    /\ pc[c] = "commit"
    /\ \E ok \in BOOLEAN :
          IF ok
          THEN /\ Step(c, CommitDo(session), Continue("returned"), "COMMIT", TRUE, 0)
               /\ err' = err
          ELSE /\ Step(c, CommitError(session), OnTransactionError(DatabaseError("COMMIT")),
                       "COMMIT", FALSE, 0)
               /\ err' = [err EXCEPT ![c] = DatabaseError("COMMIT")]
    /\ UNCHANGED <<made, id, args, sanitizedTableName, sanitizedColumns, columnTypes, i, j, values, pre>>

\* await db.exec("ROLLBACK"), then throw err
Rollback(c) ==
    /\ pc[c] = "rollback"
    /\ \E ok \in BOOLEAN :
          IF ok
          THEN Step(c, RollbackDo(session), AfterRollback(err[c]), "ROLLBACK", TRUE, 0)
          ELSE Step(c, DbError(session), OnRollbackError(DatabaseError("ROLLBACK")), "ROLLBACK", FALSE, 0)
    /\ UNCHANGED <<made, id, args, sanitizedTableName, sanitizedColumns, columnTypes, i, j, values, err, pre>>

Statement(c) ==
    Drop(c) \/ Create(c) \/ Begin(c) \/ Insert(c) \/ Commit(c) \/ Rollback(c)

\* imports of small inputs, made one at a time on the handle
SequentialCall == \E c \in Calls, input \in SmallInputs : NoCallRunning /\ Call(c, input)

Next == SequentialCall \/ \E c \in Calls : Statement(c)

Spec == Init /\ [][Next]_vars

\* imports of the large input, made one at a time on the handle
LargeCall == \E c \in Calls : NoCallRunning /\ Call(c, LargeInput)

NextLarge == LargeCall \/ \E c \in Calls : Statement(c)

SpecLarge == Init /\ [][NextLarge]_vars

(***************************************************************************)
(* Imports made while another import is in progress: the upload component  *)
(* hands every file it is given to the route's handler without awaiting    *)
(* the handler, and the handler calls createTableFromCSV on the one        *)
(* handle.  The awaits of the calls in progress complete in any order.     *)
(***************************************************************************)
ConcurrentInputs ==
    { Args(str.t1, <<str.a>>, << <<str.n42>> >>),
      \* another spelling of the same table, same column
      Args(str.T1, <<str.A>>, << <<str.n9>> >>),
      \* another table, whose second row the DATE column rejects
      Args(str.t2x, <<str.d>>, << <<str.date>>, <<str.no>> >>) }

\* variant: a call is entered only when no other call is in progress
MayEnter_WhenIdle == NoCallRunning

\* handleFiles: for (const file of newFileArray) { processFile(file); }
\* nothing waits for the calls already in progress
MayEnter == TRUE

\* the files of one drop: each slot takes the call for one of them, the
\* lowest idle slot first
CanEnter(c) ==
    /\ MayEnter
    /\ pc[c] = "idle" /\ made < MaxCalls
    /\ \A d \in Calls : d < c => pc[d] \notin {"idle"} \cup Ended

ConcurrentCall == \E c \in Calls, input \in ConcurrentInputs : CanEnter(c) /\ Call(c, input)

NextConcurrent == ConcurrentCall \/ \E c \in Calls : Statement(c)

SpecConcurrent == Init /\ [][NextConcurrent]_vars

(***************************************************************************)
(* Imports whose column names "a-b" and "a_b" have one sanitized form,     *)
(* made one at a time, after an import that leaves a table of that name.   *)
(***************************************************************************)
CollidingInputs ==
    { Args(str.t1, <<str.a>>, << <<str.n42>> >>),
      Args(str.t1, <<str.a_dash_b, str.a_us_b>>, << <<str.maybe, str.n9>> >>),
      Args(str.t1, <<str.a_dash_b, str.a_us_b>>, << >>) }

CollidingCall == \E c \in Calls, input \in CollidingInputs : NoCallRunning /\ Call(c, input)

NextColliding == CollidingCall \/ \E c \in Calls : Statement(c)

SpecColliding == Init /\ [][NextColliding]_vars

(***************************************************************************)
(* Imports of rows that do not have one cell per column.                   *)
(***************************************************************************)
RaggedInputs ==
    { \* the second row lacks the cell of column d
      Args(str.t1, <<str.a, str.d>>, << <<str.n9, str.date>>, <<str.n7>> >>),
      \* the row has a cell more than there are columns
      Args(str.t1, <<str.a>>, << <<str.n9, str.n7>> >>),
      \* one cell per column
      Args(str.t1, <<str.a>>, << <<str.n42>>, <<str.empty>> >>) }

RaggedCall == \E c \in Calls, input \in RaggedInputs : NoCallRunning /\ Call(c, input)

NextRagged == RaggedCall \/ \E c \in Calls : Statement(c)

SpecRagged == Init /\ [][NextRagged]_vars

(***************************************************************************)
(* determineColumnType on its own: the cells of one column are given as    *)
(* rows of at most one cell, the type of the column is inferred as in      *)
(* lines 49-54, then inferred again with the rows in reverse order.        *)
(***************************************************************************)
Reverse(s) == [k \in 1..Len(s) |-> s[Len(s) + 1 - k]]

\* a row without the cell, and rows whose cell is empty, a boolean token,
\* an integer, a real, a date, or none of these
ShortRows ==
    { <<>>, <<str.empty>>, <<str.one>>, <<str.zero>>, <<str.Yes>>, <<str.n7>>,
      <<str.r1p5>>, <<str.date>>, <<str.maybe>> }

ShortColumns == UNION {[1..n -> ShortRows] : n \in 0..MaxShort}

\* a column of len cells: filler everywhere, but "maybe" in the first or
\* the last k cells and the cell extra in the middle
LongColumn(len, filler, k, atEnd, extra) ==
    [r \in 1..len |->
        IF (~atEnd /\ r <= k) \/ (atEnd /\ r > len - k) THEN <<str.maybe>>
        ELSE IF r = (len + 1) \div 2 THEN <<extra>>
        ELSE <<filler>>]

\* lengths one below, at and one above a multiple of ten, up to the sample
\* of SAMPLE_LIMIT values and one beyond it; as many "maybe" as a tenth of
\* the length, one fewer and one more
LongColumns ==
    { LongColumn(10 * t + d, filler, t + m, atEnd, extra) :
        t \in (1..MaxTens) \cup {SAMPLE_LIMIT \div 10},
        d \in {-1, 0, 1}, m \in {-1, 0, 1}, atEnd \in BOOLEAN,
        filler \in {str.one, str.n7, str.r1p5, str.date},
        extra \in {str.empty, str.zero, str.n7, str.r1p5, str.date, str.maybe} }

InitInfer ==
    /\ ImportIdle
    /\ sanitizing = Unused /\ upload = Unused
    /\ \E rows \in ShortColumns \cup LongColumns :
          inferring = [stage |-> "given", rows |-> rows, column |-> <<>>,
                       type |-> "none", reversedType |-> "none"]

\* determineColumnType(rows.map(row => row[0]?.toString() ?? ""))
Infer ==
    /\ inferring.stage = "given"
    /\ LET col == columnValues(inferring.rows, 1)
       IN  inferring' = [inferring EXCEPT !.stage = "inferred", !.column = col,
                                          !.type = determineColumnType(col)]
    /\ UNCHANGED <<importVars, sanitizing, upload>>

\* the same for the rows in reverse order
InferReversed ==
    /\ inferring.stage = "inferred"
    /\ inferring' = [inferring EXCEPT
                        !.stage = "both",
                        !.reversedType =
                            determineColumnType(columnValues(Reverse(inferring.rows), 1))]
    /\ UNCHANGED <<importVars, sanitizing, upload>>

NextInfer == Infer \/ InferReversed

SpecInfer == InitInfer /\ [][NextInfer]_vars

(***************************************************************************)
(* The upload component (components/csv-upload.tsx): processFile hands a   *)
(* file to the parser, whose complete callback validates the parsed rows   *)
(* and calls onFileProcessed, and whose error callback reports a failure.  *)
(* A parsed file is described by what the validation looks at.             *)
(***************************************************************************)
MAX_ROWS == 10000
MAX_COLUMNS == 100
MAX_CELL_SIZE == 10000

Around(limit) == {0, 1} \cup ((limit - Margin)..(limit + Margin))

\* results.data: parsed |-> its length (0, or the header row and the rows
\* after it), headers |-> cells of the header row, headerCell |-> length of
\* the longest header cell, blank |-> rows after the header whose cells are
\* all empty, data |-> the other rows after the header, cell |-> length of
\* the longest cell of those
ParsedFiles ==
    { [parsed |-> 0, headers |-> 0, headerCell |-> 0, blank |-> 0, data |-> 0, cell |-> 0] }
    \cup
    { file \in
        { [parsed |-> 1 + blank + data, headers |-> headers, headerCell |-> headerCell,
           blank |-> blank, data |-> data, cell |-> cell] :
            headers \in Around(MAX_COLUMNS), headerCell \in {1, MAX_CELL_SIZE + 1},
            blank \in 0..Margin, data \in Around(MAX_ROWS),
            cell \in Around(MAX_CELL_SIZE) } :
        \* rows that are not blank have a cell that is not empty
        (file.cell = 0) <=> (file.data = 0) }

NoMessage == "null"

InitUpload ==
    /\ ImportIdle
    /\ sanitizing = Unused /\ inferring = Unused
    /\ \E file \in ParsedFiles, error \in {NoMessage, "Failed to process CSV file"} :
          upload = [stage |-> "selected", file |-> file, isProcessing |-> FALSE,
                    error |-> error, processed |-> <<>>]

\* rows.slice(1).filter(row => row.some(cell => cell !== "")).length
dataRows(file) == file.parsed - 1 - file.blank

thrownByComplete_WithoutHeaderCheck(file) ==
    IF file.parsed = 0 THEN "CSV file is empty"
    ELSE IF file.headers > MAX_COLUMNS THEN "Too many columns. Maximum 100 allowed."
    ELSE IF dataRows(file) > MAX_ROWS THEN "Too many rows. Maximum 10000 allowed."
    ELSE IF file.cell > MAX_CELL_SIZE THEN "Cell too large. Maximum 10000 characters allowed."
    ELSE NoMessage

\* the message of the error the complete callback throws before it calls
\* onFileProcessed, if it throws one
thrownByComplete(file) ==
    IF file.parsed = 0 THEN "CSV file is empty"
    ELSE IF file.headers > MAX_COLUMNS THEN "Too many columns. Maximum 100 allowed."
    ELSE IF dataRows(file) > MAX_ROWS THEN "Too many rows. Maximum 10000 allowed."
    ELSE IF file.cell > MAX_CELL_SIZE THEN "Cell too large. Maximum 10000 characters allowed."
    ELSE IF file.headers = 0 THEN "CSV file has no headers"
    ELSE NoMessage

\* processFile up to Papa.parse
ProcessFile ==
    /\ upload.stage = "selected"
    /\ upload' = [upload EXCEPT !.stage = "parsing", !.isProcessing = TRUE,
                                !.error = NoMessage]
    /\ UNCHANGED <<importVars, sanitizing, inferring>>

\* the complete callback
Complete ==
    /\ upload.stage = "parsing"
    /\ LET message == thrownByComplete(upload.file)
       IN  IF message = NoMessage
           THEN upload' = [upload EXCEPT
                             !.stage = "done",
                             !.processed = << [columns |-> upload.file.headers,
                                               rows |-> dataRows(upload.file)] >>,
                             !.isProcessing = FALSE]
           ELSE upload' = [upload EXCEPT !.stage = "done", !.error = message,
                                         !.isProcessing = FALSE]
    /\ UNCHANGED <<importVars, sanitizing, inferring>>

\* the error callback: the file could not be read
ParseError ==
    /\ upload.stage = "parsing"
    /\ upload' = [upload EXCEPT !.stage = "done", !.error = "parse error",
                                !.isProcessing = FALSE]
    /\ UNCHANGED <<importVars, sanitizing, inferring>>

NextUpload == ProcessFile \/ Complete \/ ParseError

SpecUpload == InitUpload /\ [][NextUpload]_vars

(***************************************************************************)
(* The upload component given several files at once: handleFiles calls     *)
(* processFile for each of them in one go, and the callbacks of the parser *)
(* arrive later, one per file, in any order.  The files share the          *)
(* component's isProcessing and error.                                     *)
(***************************************************************************)
\* a file within the limits, one with a row too many, and an empty one
DroppedFiles ==
    { [parsed |-> 2, headers |-> 1, headerCell |-> 1, blank |-> 0, data |-> 1, cell |-> 1],
      [parsed |-> MAX_ROWS + 2, headers |-> 1, headerCell |-> 1, blank |-> 0,
       data |-> MAX_ROWS + 1, cell |-> 1],
      [parsed |-> 0, headers |-> 0, headerCell |-> 0, blank |-> 0, data |-> 0, cell |-> 0] }

InitUploadMany ==
    /\ ImportIdle
    /\ sanitizing = Unused /\ inferring = Unused
    /\ \E n \in 1..MaxFiles : \E files \in [1..n -> DroppedFiles] :
          upload = [stage |-> "dropped", files |-> files, at |-> [f \in 1..n |-> "selected"],
                    isProcessing |-> FALSE, error |-> NoMessage, processed |-> <<>>]

\* handleFiles: for (const file of newFileArray) { processFile(file); }
\* every processFile sets isProcessing, clears the error and starts the parser
HandleFiles ==
    /\ upload.stage = "dropped"
    /\ upload' = [upload EXCEPT !.stage = "handled",
                                !.at = [f \in DOMAIN upload.files |-> "parsing"],
                                !.isProcessing = TRUE,
                                !.error = NoMessage]
    /\ UNCHANGED <<importVars, sanitizing, inferring>>

\* the complete callback of one of the files
CompleteOf(f) ==
    /\ upload.stage = "handled" /\ upload.at[f] = "parsing"
    /\ LET message == thrownByComplete(upload.files[f])
       IN  IF message = NoMessage
           THEN upload' = [upload EXCEPT
                             !.at[f] = "done",
                             !.processed = Append(@, [columns |-> upload.files[f].headers,
                                                      rows |-> dataRows(upload.files[f])]),
                             !.isProcessing = FALSE]
           ELSE upload' = [upload EXCEPT !.at[f] = "done", !.error = message,
                                         !.isProcessing = FALSE]
    /\ UNCHANGED <<importVars, sanitizing, inferring>>

\* the error callback of one of the files
ParseErrorOf(f) ==
    /\ upload.stage = "handled" /\ upload.at[f] = "parsing"
    /\ upload' = [upload EXCEPT !.at[f] = "done", !.error = "parse error",
                                !.isProcessing = FALSE]
    /\ UNCHANGED <<importVars, sanitizing, inferring>>

NextUploadMany ==
    \/ HandleFiles
    \/ \E f \in 1..MaxFiles : f \in DOMAIN upload.files /\ CompleteOf(f)
    \/ \E f \in 1..MaxFiles : f \in DOMAIN upload.files /\ ParseErrorOf(f)

SpecUploadMany == InitUploadMany /\ [][NextUploadMany]_vars

(***************************************************************************)
(* sanitizeSqlIdentifier on its own: an identifier is given, sanitized,    *)
(* and the result sanitized again.                                         *)
(***************************************************************************)
\* characters of the identifiers: a lowercase and an uppercase letter, a
\* digit, the underscore, and three characters outside [a-zA-Z0-9_]
IdentifierChars == {"a", "Z", "7", "_", "-", " ", "$"}

Identifiers == UNION {[1..n -> IdentifierChars] : n \in 0..MaxLen}

InitSanitize ==
    /\ ImportIdle
    /\ inferring = Unused /\ upload = Unused
    /\ \E s \in Identifiers :
          sanitizing = [stage |-> "given", identifier |-> s, once |-> <<>>, twice |-> <<>>]

\* sanitizeSqlIdentifier(identifier)
Sanitize ==
    /\ sanitizing.stage = "given"
    /\ sanitizing' = [sanitizing EXCEPT !.stage = "once",
                                        !.once = sanitizeSqlIdentifier(sanitizing.identifier)]
    /\ UNCHANGED <<importVars, inferring, upload>>

\* sanitizeSqlIdentifier(sanitizeSqlIdentifier(identifier))
SanitizeAgain ==
    /\ sanitizing.stage = "once"
    /\ sanitizing' = [sanitizing EXCEPT !.stage = "twice",
                                        !.twice = sanitizeSqlIdentifier(sanitizing.once)]
    /\ UNCHANGED <<importVars, inferring, upload>>

NextSanitize == Sanitize \/ SanitizeAgain

SpecSanitize == InitSanitize /\ [][NextSanitize]_vars

(***************************************************************************)
(* Properties.                                                             *)
(***************************************************************************)
\* the table of that name as a sequence of at most one table
Lookup(tables, name) == IF name \in DOMAIN tables THEN <<tables[name]>> ELSE <<>>

\* the call has issued the statement and the database rejected it
Failed(c, stmt) ==
    \E k \in 1..Len(issued[c]) : issued[c][k].stmt = stmt /\ ~issued[c][k].ok

\* a row inserted by the call is among the durable rows
RowOfCallPersists(c) ==
    \E n \in DOMAIN Durable : \E r \in 1..Len(Durable[n].rows) : Durable[n].rows[r].by = id[c]

\* the table the call is to leave behind: its columns, its converted rows
ImportedTable(c) ==
    [cols |-> columnDefinitions(sanitizedColumns[c], columnTypes[c]),
     rows |-> [r \in 1..Len(args[c].rows) |->
                  [vals |-> convertRow(args[c].rows[r], columnTypes[c]), by |-> id[c]]]]

\* C1: after a call in which a row insertion raised a database error, the
\* table of the sanitized name is as it was before the call (absent, or with
\* its prior schema and rows).
C1_AllOrNothing ==
    \A c \in Calls :
        (pc[c] \in Ended /\ Failed(c, "INSERT")) =>
            Lookup(Durable, sanitizedTableName[c]) = Lookup(pre[c], sanitizedTableName[c])

\* C2: after a call that returned, the table of the sanitized name has exactly
\* the columns of this call and exactly its converted rows, also when the
\* DROP failed.
C2_ReplaceNeverMerge ==
    \A c \in Calls :
        pc[c] = "returned" =>
            Lookup(Durable, sanitizedTableName[c]) = <<ImportedTable(c)>>

\* C3: when a row insertion fails, the call issues ROLLBACK right after it,
\* ends by throwing, and no row it inserted (in any batch) is durable.
C3_InsertFailureRollsBack ==
    \A c \in Calls :
        (pc[c] \in Ended /\ Failed(c, "INSERT")) =>
            /\ result[c].status = "thrown"
            /\ \E k \in 1..(Len(issued[c]) - 1) :
                  /\ issued[c][k].stmt = "INSERT" /\ ~issued[c][k].ok
                  /\ issued[c][k + 1].stmt = "ROLLBACK"
            /\ ~RowOfCallPersists(c)

\* an insertion failed after a complete batch of 500 rows had been inserted,
\* and the call has ended
C3_Witness ==
    \E c \in Calls :
        /\ pc[c] = "thrown"
        /\ \E k \in 1..Len(issued[c]) :
              /\ issued[c][k].stmt = "INSERT" /\ ~issued[c][k].ok
              /\ issued[c][k].row > BATCH_SIZE

\* C4: every DROP, CREATE and INSERT of a call that takes effect does so
\* inside the call's transaction (after its BEGIN, in an open block).
C4_AllStatementsInTransaction ==
    \A c \in Calls : \A k \in 1..Len(issued[c]) :
        (issued[c][k].ok /\ issued[c][k].stmt \in {"DROP", "CREATE", "INSERT"}) =>
            /\ issued[c][k].txn = "open"
            /\ \E b \in 1..(k - 1) : issued[c][b].stmt = "BEGIN" /\ issued[c][b].ok

\* C5: when CREATE TABLE fails the call throws and the store is as it was
\* before the call.
C5_CreateFailureRestores ==
    \A c \in Calls :
        (pc[c] \in Ended /\ Failed(c, "CREATE")) =>
            /\ result[c].status = "thrown"
            /\ Durable = pre[c]

\* C6: every error a call throws is an ImportError wrapping the database
\* error.
C6_ThrowsImportError ==
    \A c \in Calls :
        result[c].status = "thrown" => result[c].error.class = "ImportError"

\* C7: a failed DROP is not propagated: the next statement of the call is
\* CREATE TABLE, and no error the call throws comes from the DROP.
C7_DropFailureSwallowed ==
    \A c \in Calls :
        /\ Failed(c, "DROP") =>
              /\ Len(issued[c]) = 1 => pc[c] = "create"
              /\ Len(issued[c]) > 1 => issued[c][2].stmt = "CREATE"
        /\ result[c].status = "thrown" => result[c].error.from # "DROP"

\* the DROP of a call failed and the call went on to return its metadata
C7_Witness ==
    \E c \in Calls : Failed(c, "DROP") /\ pc[c] = "returned"

C9_RowCountIsInputLength ==
    \A c \in Calls :
        result[c].status = "returned" => result[c].value.rowCount = Len(args[c].rows)

\* a call of more rows than one batch has returned; one of its non-empty
\* cells was stored as NULL and one as false
C9_Witness ==
    \E c \in Calls :
        /\ result[c].status = "returned"
        /\ Len(args[c].rows) > BATCH_SIZE
        /\ sanitizedTableName[c] \in DOMAIN Durable
        /\ \E r \in 1..Len(args[c].rows) :
              /\ args[c].rows[r][1] # <<>>
              /\ Durable[sanitizedTableName[c]].rows[r].vals[1] = NullValue
        /\ \E r \in 1..Len(args[c].rows) :
              /\ toLowerCase(trim(args[c].rows[r][2])) \notin booleanValues
              /\ Durable[sanitizedTableName[c]].rows[r].vals[2] = BoolValue(FALSE)

\* C10: the metadata a call returns names the unsanitized and the sanitized
\* table name and has one entry per input column, in input order: the
\* column's name, its sanitized name, and the type inferred from the
\* column's cells.
C10_MetadataAlignedWithInput ==
    \A c \in Calls :
        result[c].status = "returned" =>
            LET meta == result[c].value
            IN  /\ meta.tableName = args[c].tableName
                /\ meta.sanitizedTableName = sanitizeSqlIdentifier(args[c].tableName)
                /\ Len(meta.columns) = Len(args[c].columns)
                /\ \A col \in 1..Len(args[c].columns) :
                      /\ meta.columns[col].originalName = args[c].columns[col]
                      /\ meta.columns[col].sanitizedName = sanitizeSqlIdentifier(args[c].columns[col])
                      /\ meta.columns[col].type = determineColumnType(columnValues(args[c].rows, col))

\* a call for "T1" with the columns "ok" and "x y" has returned: table t1,
\* columns ok BOOLEAN and x_y REAL
C10_Witness ==
    \E c \in Calls :
        /\ result[c].status = "returned"
        /\ args[c].tableName = str.T1 /\ args[c].columns = <<str.ok, str.x_y>>
        /\ result[c].value.sanitizedTableName = str.t1
        /\ result[c].value.columns =
              << [originalName |-> str.ok, sanitizedName |-> str.ok, type |-> "BOOLEAN"],
                 [originalName |-> str.x_y, sanitizedName |-> <<"x","_","y">>, type |-> "REAL"] >>

\* the values the INSERTs bind when every row goes through the loop as one
\* batch: one INSERT per input row, in input order
insertsOfOneBatch(rows, types) ==
    SubSeq([r \in 1..Len(rows) |-> convertRow(rows[r], types)], 1, Len(rows))

\* the INSERTs a call has issued so far
insertsIssued(c) == SelectSeq(issued[c], LAMBDA s : s.stmt = "INSERT")

\* the rows a call has put into its table in the session, oldest first
rowsPut(c) ==
    LET tbl == Lookup(session.db, sanitizedTableName[c])
    IN  IF tbl = <<>> THEN <<>>
        ELSE SelectSeq(tbl[1].rows, LAMBDA r : r.by = id[c])

\* C11: batching is transparent. At every point of a call the INSERTs it
\* has issued are those of a single batch over the same rows, in the same
\* order: the n-th INSERT is for the n-th input row and binds its values,
\* and while no INSERT has failed the table has received n rows of the
\* call, the last being that of the n-th INSERT; a call that returns has
\* issued one INSERT per row and left the table with exactly the rows of
\* the single batch, in the same order.
C11_BatchingTransparent ==
    \A c \in Calls :
        LET ins == insertsIssued(c)
            n   == Len(ins)
            put == rowsPut(c)
        IN  pc[c] \in {"insert", "commit", "rollback", "returned", "thrown"} =>
              /\ n <= Len(args[c].rows)
              /\ \A k \in 1..n : ins[k].row = k
              /\ n > 0 => values[c] = convertRow(args[c].rows[n], columnTypes[c])
              /\ (pc[c] \in {"insert", "commit"} /\ ~Failed(c, "INSERT")) =>
                    /\ Len(put) = n
                    /\ n > 0 => put[n].vals = convertRow(args[c].rows[n], columnTypes[c])
              /\ result[c].status = "returned" =>
                    /\ n = Len(args[c].rows)
                    /\ SubSeq([k \in 1..Len(put) |-> put[k].vals], 1, Len(put))
                          = insertsOfOneBatch(args[c].rows, columnTypes[c])

\* a call with more rows than one batch holds has returned, its INSERTs
\* going past the end of the first batch
C11_Witness ==
    \E c \in Calls :
        /\ result[c].status = "returned"
        /\ Len(args[c].rows) > BATCH_SIZE
        /\ Len(insertsIssued(c)) = Len(args[c].rows)
        /\ Len(rowsPut(c)) = BATCH_SIZE + ExtraRows

\* C12: whatever string it is given, sanitizeSqlIdentifier returns a
\* non-empty string that starts with a lowercase letter or an underscore
\* and holds only lowercase letters, digits and underscores.
C12_SanitizedMatchesPattern ==
    sanitizing.stage \in {"once", "twice"} =>
        LET out == sanitizing.once
        IN  /\ Len(out) > 0
            /\ out[1] \in Range(LowerLetters) \cup {"_"}
            /\ \A k \in 1..Len(out) :
                  out[k] \in Range(LowerLetters) \cup Range(Digits) \cup {"_"}

\* "7-Z", which starts with a digit and holds a dash and an uppercase
\* letter, has been sanitized to "_7_z"
C12_Witness ==
    /\ sanitizing.stage = "once"
    /\ sanitizing.identifier = <<"7", "-", "Z">>
    /\ sanitizing.once = <<"_", "7", "_", "z">>

\* C13: sanitizing a sanitized identifier changes nothing.
C13_SanitizeIdempotent ==
    sanitizing.stage = "twice" => sanitizing.twice = sanitizing.once

\* "_7", the result for "7", has been sanitized again and is still "_7"
C13_Witness ==
    /\ sanitizing.stage = "twice"
    /\ sanitizing.identifier = <<"7">>
    /\ sanitizing.once = <<"_", "7">>
    /\ sanitizing.twice = <<"_", "7">>

\* the values determineColumnType samples from a column: the first
\* SAMPLE_LIMIT of those that are not empty
sampleOf(col) ==
    LET nonEmpty == SelectSeq(col, LAMBDA v : v # <<>>)
    IN  SubSeq(nonEmpty, 1, Min(SAMPLE_LIMIT, Len(nonEmpty)))

\* the sampled values classified as ty
sampledAs(col, ty) ==
    LET types == ClassifyAll(sampleOf(col))
    IN  {k \in 1..Len(types) : types[k] = ty}

\* C14: a column is BOOLEAN exactly when its sample is not empty and every
\* sampled value is classified BOOLEAN, in whichever order the values come;
\* a column whose sampled values are only "1" and "0" is BOOLEAN.
C14_BooleanUnanimity ==
    LET Unanimity(col, type) ==
            LET sample == sampleOf(col)
            IN  /\ type = "BOOLEAN" <=>
                      /\ Len(sample) > 0
                      /\ Cardinality(sampledAs(col, "BOOLEAN")) = Len(sample)
                /\ (Len(sample) > 0 /\ \A k \in 1..Len(sample) : sample[k] \in {<<"1">>, <<"0">>})
                      => type = "BOOLEAN"
    IN  /\ inferring.stage \in {"inferred", "both"} =>
              Unanimity(inferring.column, inferring.type)
        /\ inferring.stage = "both" =>
              Unanimity(Reverse(inferring.column), inferring.reversedType)

\* ten cells, nine "1" and one "0", have been inferred BOOLEAN
C14_Witness ==
    /\ inferring.stage = "inferred"
    /\ Len(inferring.column) = 10
    /\ \A r \in 1..10 : inferring.column[r] = IF r = 5 THEN <<"0">> ELSE <<"1">>
    /\ inferring.type = "BOOLEAN"

\* C15: a column is TEXT whenever ten times the number of sampled values
\* classified TEXT exceeds the sample size, whatever the other values are
\* and whether the TEXT values come first or last; when it does not exceed
\* it and a REAL, INTEGER or DATE value is sampled, the column is not TEXT.
C15_EarlyExit ==
    LET Tenth(col, type) ==
            LET n    == Len(sampleOf(col))
                text == Cardinality(sampledAs(col, "TEXT"))
            IN  /\ 10 * text > n => type = "TEXT"
                /\ ( /\ 10 * text <= n
                     /\ \E ty \in {"REAL", "INTEGER", "DATE"} : sampledAs(col, ty) # {} )
                      => type # "TEXT"
    IN  /\ inferring.stage \in {"inferred", "both"} =>
              Tenth(inferring.column, inferring.type)
        /\ inferring.stage = "both" =>
              Tenth(Reverse(inferring.column), inferring.reversedType)

\* twenty cells, integers but for three "maybe" at the end, are TEXT in
\* either order
C15_Witness ==
    /\ inferring.stage = "both"
    /\ Len(inferring.column) = 20
    /\ \A r \in 1..20 : inferring.column[r] = IF r > 17 THEN str.maybe ELSE str.n7
    /\ inferring.type = "TEXT" /\ inferring.reversedType = "TEXT"

\* C16: when at most a tenth of the sample is TEXT and the sample is not
\* all BOOLEAN, the column is REAL if a REAL value is sampled, else INTEGER
\* if an INTEGER is, else DATE if a DATE is, else TEXT, however many there
\* are of each; and a column the sample takes whole has the same type in
\* reverse order.
C16_PriorityOrder ==
    LET Priority(col, type) ==
            LET n    == Len(sampleOf(col))
                text == Cardinality(sampledAs(col, "TEXT"))
            IN  (n > 0 /\ 10 * text <= n /\ Cardinality(sampledAs(col, "BOOLEAN")) # n) =>
                    type = IF sampledAs(col, "REAL") # {} THEN "REAL"
                           ELSE IF sampledAs(col, "INTEGER") # {} THEN "INTEGER"
                           ELSE IF sampledAs(col, "DATE") # {} THEN "DATE"
                           ELSE "TEXT"
    IN  /\ inferring.stage \in {"inferred", "both"} =>
              Priority(inferring.column, inferring.type)
        /\ inferring.stage = "both" =>
              /\ Priority(Reverse(inferring.column), inferring.reversedType)
              /\ Len(SelectSeq(inferring.column, LAMBDA v : v # <<>>)) <= SAMPLE_LIMIT =>
                    inferring.reversedType = inferring.type

\* twenty cells, dates but for one "maybe" and one "7", are INTEGER in
\* either order
C16_Witness ==
    /\ inferring.stage = "both"
    /\ Len(inferring.column) = 20
    /\ \A r \in 1..20 : inferring.column[r] =
            IF r = 1 THEN str.maybe ELSE IF r = 10 THEN str.n7 ELSE str.date
    /\ inferring.type = "INTEGER" /\ inferring.reversedType = "INTEGER"

\* C17: determineColumnType returns one of the five column types for every
\* column, and TEXT for a column without rows or whose cells are all empty
\* or absent.
C17_InferenceTotal ==
    inferring.stage \in {"inferred", "both"} =>
        /\ inferring.type \in PostgresColumnType
        /\ inferring.stage = "both" => inferring.reversedType \in PostgresColumnType
        /\ (\A r \in 1..Len(inferring.rows) :
                inferring.rows[r] = <<>> \/ inferring.rows[r][1] = <<>>)
              => inferring.type = "TEXT"

\* a row without the cell and a row with an empty cell have been inferred TEXT
C17_Witness ==
    /\ inferring.stage = "inferred"
    /\ inferring.rows = << <<>>, <<str.empty>> >>
    /\ inferring.type = "TEXT"

\* C18: in every INSERT, the cell of each column is bound as NULL when it
\* is empty or the row has no such cell; in an INTEGER or REAL column a
\* cell that is not empty is bound as the number it parses to, and as NULL,
\* which the column accepts, when it does not parse.
C18_CellCoercionToNull ==
    \A c \in Calls :
        LET ins == insertsIssued(c)
            n   == Len(ins)
        IN  n > 0 =>
              LET row == args[c].rows[ins[n].row]
              IN  \A col \in 1..Len(args[c].columns) :
                    /\ (col > Len(row) \/ row[col] = <<>>) =>
                          col <= Len(values[c]) /\ values[c][col] = NullValue
                    /\ ( /\ col <= Len(row) /\ row[col] # <<>>
                         /\ columnTypes[c][col] \in {"INTEGER", "REAL"} ) =>
                          /\ values[c][col] = IF isNaN(Number(row[col])) THEN NullValue
                                              ELSE NumberValue(Number(row[col]))
                          /\ isNaN(Number(row[col])) =>
                                ColumnAccepts(columnTypes[c][col], values[c][col])

\* C19: in every INSERT, a cell of a BOOLEAN column that is not empty is
\* bound as a boolean: true when the cell, trimmed and in lower case, is
\* one of true, yes, 1, t, y, and false for every other cell, the negative
\* tokens and the cells that are no boolean token alike.
C19_AsymmetricBooleanCoercion ==
    \A c \in Calls :
        LET ins == insertsIssued(c)
            n   == Len(ins)
        IN  n > 0 =>
              LET row == args[c].rows[ins[n].row]
              IN  \A col \in 1..Len(row) :
                    ( /\ col <= Len(columnTypes[c]) /\ columnTypes[c][col] = "BOOLEAN"
                      /\ row[col] # <<>> ) =>
                        /\ values[c][col].k = "bool"
                        /\ values[c][col].b <=>
                              toLowerCase(trim(row[col])) \in
                                { <<"t","r","u","e">>, <<"y","e","s">>, <<"1">>, <<"t">>, <<"y">> }

\* the INSERT of the row whose cell in the BOOLEAN column is "maybe" has
\* bound false, after INSERTs that bound true for "Yes " and false for "no"
C19_Witness ==
    \E c \in Calls :
        /\ Len(insertsIssued(c)) = SAMPLE_LIMIT + 50
        /\ columnTypes[c][2] = "BOOLEAN"
        /\ args[c].rows[SAMPLE_LIMIT + 50][2] = str.maybe
        /\ args[c].rows[1][2] = str.Yes /\ args[c].rows[4][2] = str.no
        /\ values[c][2] = BoolValue(FALSE)

\* C20: the upload component calls onFileProcessed for a parsed file only
\* if the header row has between 1 and 100 cells, at most 10000 rows after
\* it are not blank, and no cell of those rows is longer than 10000
\* characters; when the file breaks one of these limits, onFileProcessed is
\* not called and an error message is set.
C20_UploadLimits ==
    upload.stage = "done" =>
        LET file     == upload.file
            inLimits == /\ file.parsed > 0
                        /\ file.headers >= 1 /\ file.headers <= 100
                        /\ file.parsed - 1 - file.blank <= 10000
                        /\ file.cell <= 10000
        IN  /\ upload.processed # <<>> => inLimits
            /\ ~inLimits => upload.processed = <<>> /\ upload.error # NoMessage

\* a file at every limit (100 header cells, 10000 rows that are not blank
\* and one that is, a cell of 10000 characters) has been handed to
\* onFileProcessed with its 10000 rows
C20_Witness ==
    /\ upload.stage = "done"
    /\ upload.file.headers = MAX_COLUMNS /\ upload.file.cell = MAX_CELL_SIZE
    /\ upload.file.blank = 1 /\ upload.file.parsed = MAX_ROWS + 2
    /\ upload.processed = << [columns |-> MAX_COLUMNS, rows |-> MAX_ROWS] >>
    /\ upload.error = NoMessage

InProgress(c) == pc[c] \notin {"idle"} \cup Ended

\* C21: nothing keeps the calls apart.  While a call is in progress the
\* call for a further file can be entered, and a call in progress whose
\* next statement is DROP, CREATE, BEGIN, COMMIT or ROLLBACK can issue it
\* wherever the other call stands (an INSERT waits for nothing either: its
\* action has no condition but the position of its own call).  So the
\* statements of two calls for one table interleave.
C21_NoConcurrencyControl ==
    /\ \A c, d \in Calls :
          (InProgress(c) /\ pc[d] = "idle" /\ made < MaxCalls) => \E e \in Calls : CanEnter(e)
    /\ \A c \in Calls :
          (InProgress(c) /\ pc[c] # "insert") => ENABLED Statement(c)

\* two calls for the table t1 have both returned, their statements
\* interleaved, and the table holds the rows of both: the result of
\* neither call alone
C21_Witness ==
    \E c, d \in Calls :
        /\ c # d
        /\ result[c].status = "returned" /\ result[d].status = "returned"
        /\ sanitizedTableName[c] = sanitizedTableName[d]
        /\ sanitizedTableName[c] \in DOMAIN Durable
        /\ \E r \in 1..Len(Durable[sanitizedTableName[c]].rows) :
              Durable[sanitizedTableName[c]].rows[r].by = id[c]
        /\ \E r \in 1..Len(Durable[sanitizedTableName[c]].rows) :
              Durable[sanitizedTableName[c]].rows[r].by = id[d]
        /\ Durable[sanitizedTableName[c]] # ImportedTable(c)
        /\ Durable[sanitizedTableName[c]] # ImportedTable(d)

\* two calls for the table t1 have both returned and the rows of the one
\* that was entered first are missing, though it committed last
C21_WitnessRowsMissing ==
    \E c, d \in Calls :
        /\ id[c] < id[d]
        /\ result[c].status = "returned" /\ result[d].status = "returned"
        /\ sanitizedTableName[c] = sanitizedTableName[d]
        /\ issued[c][Len(issued[c])].txn = "open"
        /\ sanitizedTableName[c] \in DOMAIN Durable
        /\ \A r \in 1..Len(Durable[sanitizedTableName[c]].rows) :
              Durable[sanitizedTableName[c]].rows[r].by # id[c]

\* C22: every value bound in an INSERT conforms to the type inferred for
\* its column: it is NULL, or a number in an INTEGER or REAL column (a
\* whole number in an INTEGER column), a boolean in a BOOLEAN column, a
\* YYYY-MM-DD string in a DATE column, a string in a TEXT column.
C22_BoundValuesConform ==
    \A c \in Calls :
        Len(insertsIssued(c)) > 0 =>
            \A col \in 1..Len(values[c]) :
                col <= Len(columnTypes[c]) =>
                    LET v  == values[c][col]
                        ty == columnTypes[c][col]
                    IN  \/ v.k = "null"
                        \/ ty = "REAL" /\ v.k = "num"
                        \/ ty = "INTEGER" /\ v.k = "num" /\ v.num.k = "fin" /\ v.num.e >= 0
                        \/ ty = "BOOLEAN" /\ v.k = "bool"
                        \/ ty = "DATE" /\ v.k = "str" /\ datePattern(v.s)
                        \/ ty = "TEXT" /\ v.k = "str"

\* C23: two calls for different tables that run at the same time on one
\* handle are isolated.  A call that has returned has its table in the
\* database, with exactly its rows, whatever the other call did (the
\* failure and ROLLBACK of the other call removes nothing of it); and a
\* call that has rolled back and thrown has no row in the database (no
\* COMMIT of the other call made its rows durable).
C23_DifferentTablesIsolated ==
    \A c, d \in Calls :
        (c # d /\ id[c] > 0 /\ id[d] > 0 /\ sanitizedTableName[c] # sanitizedTableName[d]) =>
            /\ result[d].status = "returned" =>
                  /\ sanitizedTableName[d] \in DOMAIN Durable
                  /\ Durable[sanitizedTableName[d]] = ImportedTable(d)
            /\ ( /\ result[d].status = "thrown"
                 /\ \E k \in 1..Len(issued[d]) :
                        issued[d][k].stmt = "ROLLBACK" /\ issued[d][k].ok ) =>
                  \A n \in DOMAIN Durable :
                      \A r \in 1..Len(Durable[n].rows) : Durable[n].rows[r].by # id[d]

\* C24: every INSERT binds exactly as many values as there are columns,
\* the value at each position being that of the row's cell for the column
\* at that position, also when the row has fewer or more cells than there
\* are columns.
C24_OneValuePerColumn ==
    \A c \in Calls :
        LET ins == insertsIssued(c)
            n   == Len(ins)
        IN  n > 0 =>
              LET row == args[c].rows[ins[n].row]
              IN  /\ Len(values[c]) = Len(args[c].columns)
                  /\ \A col \in 1..Len(args[c].columns) :
                        col <= Len(values[c]) =>
                            values[c][col] =
                                convertCell(IF col <= Len(row) THEN row[col] ELSE <<>>,
                                            columnTypes[c][col])

\* the statements of the given kinds that a call has issued
issuedOf(c, stmts) == SelectSeq(issued[c], LAMBDA s : s.stmt \in stmts)

\* C25: a call that has opened its transaction with BEGIN and has ended,
\* by return or by throw, has issued exactly one of COMMIT and ROLLBACK:
\* COMMIT if no INSERT failed, ROLLBACK if one did; and the transaction is
\* no longer open.
C25_OneTransactionEnd ==
    \A c \in Calls :
        ( /\ pc[c] \in Ended
          /\ \E k \in 1..Len(issued[c]) : issued[c][k].stmt = "BEGIN" /\ issued[c][k].ok ) =>
            LET ends == issuedOf(c, {"COMMIT", "ROLLBACK"})
            IN  /\ Len(ends) = 1
                /\ ends[1].stmt = IF Failed(c, "INSERT") THEN "ROLLBACK" ELSE "COMMIT"
                /\ txn = "none"

\* C26: a call in which an INSERT has failed throws the error of that
\* INSERT, also when the ROLLBACK that follows fails itself.
C26_InsertErrorReachesCaller ==
    \A c \in Calls :
        (pc[c] \in Ended /\ Failed(c, "INSERT")) =>
            /\ result[c].status = "thrown"
            /\ result[c].error = DatabaseError("INSERT")

\* C27: the statements of a call are issued one after the other in the
\* order DROP, CREATE, BEGIN, one INSERT per row in the order of the rows,
\* COMMIT.  The first three are issued once, in that order, each only if
\* CREATE and BEGIN before it succeeded; the INSERTs come after BEGIN, for
\* the rows 1, 2, ... in turn, none after an INSERT that failed; COMMIT
\* comes after the INSERT of the last row.
C27_StatementOrder ==
    \A c \in Calls :
        LET log == issued[c]
            n   == Len(log)
        IN  /\ n >= 1 => log[1].stmt = "DROP"
            /\ n >= 2 => log[2].stmt = "CREATE"
            /\ n >= 3 => log[3].stmt = "BEGIN" /\ log[2].ok
            /\ n >= 4 => log[3].ok
            /\ \A k \in 4..n :
                  /\ log[k].stmt \in {"INSERT", "COMMIT", "ROLLBACK"}
                  /\ log[k].stmt = "INSERT" =>
                        /\ log[k].row = k - 3
                        /\ k > 4 => log[k - 1].stmt = "INSERT" /\ log[k - 1].ok
                  /\ log[k].stmt = "COMMIT" =>
                        /\ k = Len(args[c].rows) + 4
                        /\ \A m \in 4..(k - 1) : log[m].stmt = "INSERT" /\ log[m].ok
            \* one statement at a time: the call waits at one await
            /\ pc[c] \in {"idle", "drop", "create", "begin", "insert", "commit",
                          "rollback", "returned", "thrown"}
            /\ pc[c] = "insert" => n = 3 + i[c] + j[c]

\* a call for two rows has returned after DROP, CREATE, BEGIN, the INSERT
\* of row 1, the INSERT of row 2 and COMMIT
C27_Witness ==
    \E c \in Calls :
        /\ result[c].status = "returned"
        /\ Len(args[c].rows) = 2
        /\ [k \in 1..Len(issued[c]) |-> issued[c][k].stmt] =
              <<"DROP", "CREATE", "BEGIN", "INSERT", "INSERT", "COMMIT">>
        /\ issued[c][4].row = 1 /\ issued[c][5].row = 2

\* C28: the type of a column is decided by its first 100 values that are
\* not empty, in their order, and by nothing else: it is the type of the
\* column made of just these values, whatever empty values lie between
\* them and whatever values follow them.
C28_SampleDecides ==
    LET First100(col) ==
            LET nonEmpty == SelectSeq(col, LAMBDA v : v # <<>>)
            IN  SubSeq(nonEmpty, 1, IF Len(nonEmpty) < 100 THEN Len(nonEmpty) ELSE 100)
    IN  /\ inferring.stage \in {"inferred", "both"} =>
              inferring.type = determineColumnType(First100(inferring.column))
        /\ inferring.stage = "both" =>
              inferring.reversedType =
                  determineColumnType(First100(Reverse(inferring.column)))

\* a column of 101 cells, integers but for "maybe" in the last eleven, is
\* INTEGER: ten of the first 100 are "maybe", the 101st is not looked at;
\* in reverse order, with eleven "maybe" among the first 100, it is TEXT
C28_Witness ==
    /\ inferring.stage = "both"
    /\ Len(inferring.column) = 101
    /\ \A r \in 1..101 : inferring.column[r] = IF r > 90 THEN str.maybe ELSE str.n7
    /\ inferring.type = "INTEGER"
    /\ inferring.reversedType = "TEXT"

\* a column of 101 cells, one of them empty, is TEXT by its eleven "maybe":
\* the empty cell does not count towards the 100
C28_WitnessEmptyNotCounted ==
    /\ inferring.stage = "inferred"
    /\ Len(inferring.column) = 101
    /\ \A r \in 1..101 : inferring.column[r] =
            IF r > 90 THEN str.maybe ELSE IF r = 51 THEN str.empty ELSE str.n7
    /\ inferring.type = "TEXT"

\* two different column names of the call have one sanitized form
Collides(c) ==
    \E a, b \in 1..Len(args[c].columns) :
        /\ args[c].columns[a] # args[c].columns[b]
        /\ sanitizeSqlIdentifier(args[c].columns[a]) = sanitizeSqlIdentifier(args[c].columns[b])

C29_WitnessInsertIssued ==
    \E c \in Calls :
        /\ pc[c] = "thrown"
        /\ Collides(c)
        /\ Failed(c, "INSERT")
        /\ result[c].error = DatabaseError("INSERT")

\* C30: while a file handed to processFile has reached neither its
\* complete nor its error callback, isProcessing is true.
C30_ProcessingWhileOutstanding ==
    (upload.stage = "handled" /\ \E f \in DOMAIN upload.files : upload.at[f] = "parsing")
        => upload.isProcessing

====
